---- MODULE Spec2Model ----
(***************************************************************************)
(* SharpTracker (src/app.py): a Streamlit script that keeps a working copy *)
(* of three worksheets (Bets, Cash, Meta) in st.session_state, counts the  *)
(* unsaved mutations, and writes the worksheets back on PUSH TO CLOUD.     *)
(*                                                                         *)
(* One step of the model is one run of the script: the prologue (lines     *)
(* 106-152) followed by the one widget handler whose button was clicked.   *)
(* Money is modelled in whole units (integer stakes, odds and payouts);    *)
(* a date value is a record [day, tod] where tod is the time of day that   *)
(* pd.to_datetime(...).dt.date discards (tod = 0 for a plain date).        *)
(* Of the wager's descriptive columns (Sport, League, Bookie, Type, Event) *)
(* the model carries Bookie; the others are copied by the code the same    *)
(* way. Rows are addressed by position: the DataFrame index labels are     *)
(* unique in every reachable state (RangeIndex after load and after        *)
(* concat(ignore_index=True), drop() keeps the others), so .at[idx] and    *)
(* drop(idx) act on exactly one row.                                       *)
(***************************************************************************)
EXTENDS Integers, Sequences, FiniteSets, TLC

\* ---- bounds of the model ------------------------------------------------
MaxSyncBets == 1      \* rows of bets_df under Spec
MaxUnsaved == 3       \* unsaved_count under Spec
MaxLedgerBets == 2    \* rows of bets_df under LedgerSpec
MaxLedgerOps == 4     \* unsaved_count under LedgerSpec
MaxCash == 1          \* rows of cash_df
MaxStreakRows == 4    \* rows of a table given to the Dashboard
MaxRawRows == 2       \* rows of a Bets worksheet under LoaderSpec

VARIABLES
    session_state,  \* st.session_state: a mapping from the keys present to their values
    sheets,         \* the Google workbook behind conn: worksheets Bets, Cash, Meta
    conn_calls,     \* the calls the last script run made on conn, in order
    handler,        \* the widget handler that ran in the last script run, with the inputs
                    \* its widgets held where the model needs them
    staged,         \* history: mutating handlers run since the last load / successful push
    pushed,         \* history: the working copy written by the last successful push,
                    \*          while nothing has been staged since
    issued,         \* history: the wager ids SAVE has handed out
    sel_bookies,    \* Dashboard: the Bookie multiselect of the last Dashboard run
    streak_card     \* Dashboard: the "Current Momentum" card, when the last run drew it

vars == <<session_state, sheets, conn_calls, handler, staged, pushed, issued, sel_bookies,
          streak_card>>

\* ---- values --------------------------------------------------------------
NoneValue == "<None>"          \* Python None (selectbox over an empty option list)
NoCard == [label |-> "<not drawn>", hex |-> "<not drawn>"]
NoPush == [push |-> "none"]
Ran(name) == [name |-> name, args |-> <<>>]

Statuses == {"Pending", "Won", "Lost", "Push", "Cashed Out"}
Times == {"10:00:00", "10:00:01"}      \* values of datetime.now().strftime("%H:%M:%S")

PlainDate(d) == [day |-> d, tod |-> 0]
Today == PlainDate(2)

\* pd.to_datetime(x).dt.date : the time of day is discarded
ToDate(x) == [day |-> x.day, tod |-> 0]

\* ---- session_state as a keyed mapping ------------------------------------
Has(ss, k) == k \in DOMAIN ss
Put(ss, k, v) == (k :> v) @@ ss
Del(ss, ks) == [k \in (DOMAIN ss) \ ks |-> ss[k]]

\* lines 106-109
SessionDefaults(ss) ==
    LET a == IF Has(ss, "unsaved_count") THEN ss ELSE Put(ss, "unsaved_count", 0)
    IN  IF Has(a, "last_sync") THEN a ELSE Put(a, "last_sync", "Never")

Loaded == Has(session_state, "bets_df")

\* ---- the loader (lines 119-141) -------------------------------------------
required_bet_fields == {"id", "Date", "Bookie", "Odds", "Stake", "Status", "PL", "Cashout_Amt"}
numeric_bet_fields == {"id", "Odds", "Stake", "PL", "Cashout_Amt"}
required_meta_fields == {"Sports", "Leagues", "Bookies", "Types"}

\* variant: the loader that fills a missing text column with the empty string
BetFieldDefaultEmpty(f) == IF f \in numeric_bet_fields THEN 0 ELSE ""

\* lines 125-130: a column the sheet lacks is added to every row
BetFieldDefault(f) == IF f \in numeric_bet_fields THEN 0 ELSE "N/A"

EnforceBetSchema(raw_bets) ==
    [i \in 1..Len(raw_bets) |->
        [f \in (DOMAIN raw_bets[i]) \cup required_bet_fields |->
            IF f \in DOMAIN raw_bets[i] THEN raw_bets[i][f] ELSE BetFieldDefault(f)]]

\* a Meta table is held by column: a record of equally long lists
MetaRows(meta) == IF DOMAIN meta = {} THEN 0 ELSE Len(meta[CHOOSE c \in DOMAIN meta : TRUE])

\* lines 132-135
EnforceMetaSchema(raw_meta) ==
    [c \in (DOMAIN raw_meta) \cup required_meta_fields |->
        IF c \in DOMAIN raw_meta THEN raw_meta[c]
        ELSE [i \in 1..MetaRows(raw_meta) |-> ""]]

\* lines 138-141
SanitizeDates(raw) ==
    [i \in 1..Len(raw) |-> [raw[i] EXCEPT !.Date = ToDate(raw[i].Date)]]


\* ---- the workbook behind conn ----------------------------------------------
ReadCalls == << <<"read", "Bets">>, <<"read", "Cash">>, <<"read", "Meta">> >>
UpdateCalls == << <<"update", "Bets">>, <<"update", "Cash">>, <<"update", "Meta">> >>

\* the Meta worksheet of an installation with one entry per drop-down list
InitialMeta == [Sports |-> <<"s1">>, Leagues |-> <<"l1">>, Bookies |-> <<"b1">>, Types |-> <<"t1">>]

\* the workbook of a new installation: Bets and Cash hold their header row only
EmptyWorkbook == [Bets |-> <<>>, Cash |-> <<>>, Meta |-> InitialMeta]

\* variant: the push that forgets the Meta worksheet
WriteFirstNoMeta(sh, ss, n) ==
    [Bets |-> IF n >= 1 THEN ss["bets_df"] ELSE sh.Bets,
     Cash |-> IF n >= 2 THEN ss["cash_df"] ELSE sh.Cash,
     Meta |-> sh.Meta]

\* lines 208-210: the first n of the three conn.update calls have overwritten their worksheet
WriteFirst(sh, ss, n) ==
    [Bets |-> IF n >= 1 THEN ss["bets_df"] ELSE sh.Bets,
     Cash |-> IF n >= 2 THEN ss["cash_df"] ELSE sh.Cash,
     Meta |-> IF n >= 3 THEN ss["meta_df"] ELSE sh.Meta]

WorkingCopy(ss) == [Bets |-> ss["bets_df"], Cash |-> ss["cash_df"], Meta |-> ss["meta_df"]]

\* lines 112-147, the try body
FetchInto(ss, sh, now) ==
    LET raw_bets == EnforceBetSchema(sh.Bets)
        raw_meta == EnforceMetaSchema(sh.Meta)
        a == Put(ss, "bets_df", SanitizeDates(raw_bets))
        b == Put(a, "cash_df", SanitizeDates(sh.Cash))
        c == Put(b, "meta_df", raw_meta)
    IN  Put(c, "last_sync", now)

\* ---- script runs -------------------------------------------------------------
Init ==
    /\ session_state = [authenticated |-> TRUE]
    /\ sheets = EmptyWorkbook
    /\ conn_calls = <<>>
    /\ handler = Ran("none")
    /\ staged = 0
    /\ pushed = NoPush
    /\ issued = {}
    /\ sel_bookies = {}
    /\ streak_card = NoCard

\* lines 138-141: pd.to_datetime raises on a text that is no date. The worksheets of
\* the model hold date values in the Date cells they have, so the text that fails is
\* the "N/A" that lines 125-130 wrote into a Date column the Bets worksheet lacks; an
\* empty table skips the conversion.
DateParseRaises(sh) ==
    /\ sh.Bets /= <<>>
    /\ \E i \in 1..Len(sh.Bets) : "Date" \notin DOMAIN sh.Bets[i]

\* lines 106-152: the run that finds no bets_df in the session. A conn.read may raise
\* (the k-th one), or the date conversion after the three reads, and then st.stop()
\* ends the run with nothing committed.
InitialFetch ==
    /\ ~Loaded
    /\ LET ss == SessionDefaults(session_state)
       IN  \/ \E k \in 1..3 :
                /\ session_state' = ss
                /\ conn_calls' = SubSeq(ReadCalls, 1, k)
                /\ handler' = Ran("fetch failed")
                /\ staged' = staged
           \/ /\ DateParseRaises(sheets)
              /\ session_state' = ss
              /\ conn_calls' = ReadCalls
              /\ handler' = Ran("fetch failed")
              /\ staged' = staged
           \/ \E now \in Times :
                /\ ~DateParseRaises(sheets)
                /\ session_state' = FetchInto(ss, sheets, now)
                /\ conn_calls' = ReadCalls
                /\ handler' = Ran("fetch")
                /\ staged' = 0
    /\ UNCHANGED <<sheets, pushed, issued, sel_bookies, streak_card>>

\* variant: the push that resets the counter and the sync time before it writes
PushToCloudResetFirst ==
    /\ Loaded
    /\ session_state["unsaved_count"] > 0
    /\ \E now \in Times :
        /\ session_state' = Put(Put(session_state, "unsaved_count", 0), "last_sync", now)
        /\ \/ \E j \in 1..3 :
                /\ sheets' = WriteFirst(sheets, session_state, j - 1)
                /\ conn_calls' = SubSeq(UpdateCalls, 1, j)
                /\ handler' = Ran("push failed")
                /\ pushed' = NoPush
                /\ staged' = staged
           \/ /\ sheets' = WriteFirst(sheets, session_state, 3)
              /\ conn_calls' = UpdateCalls
              /\ handler' = Ran("push")
              /\ staged' = 0
              /\ pushed' = WorkingCopy(session_state)
    /\ UNCHANGED <<issued, sel_bookies, streak_card>>

\* variant: the push that counts the changes as saved although a conn.update raised
PushToCloudClearsOnFailure ==
    /\ Loaded
    /\ session_state["unsaved_count"] > 0
    /\ \/ \E j \in 1..3 :
            /\ sheets' = WriteFirst(sheets, session_state, j - 1)
            /\ conn_calls' = SubSeq(UpdateCalls, 1, j)
            /\ handler' = Ran("push failed")
            /\ pushed' = NoPush
            /\ session_state' = Put(session_state, "unsaved_count", 0)
            /\ staged' = 0
       \/ \E now \in Times :
            /\ sheets' = WriteFirst(sheets, session_state, 3)
            /\ conn_calls' = UpdateCalls
            /\ handler' = Ran("push")
            /\ session_state' = Put(Put(session_state, "unsaved_count", 0), "last_sync", now)
            /\ staged' = 0
            /\ pushed' = WorkingCopy(session_state)
    /\ UNCHANGED <<issued, sel_bookies, streak_card>>

\* lines 203-216: PUSH TO CLOUD, offered while unsaved_count > 0. The j-th conn.update
\* may raise: the worksheets before it are already overwritten.
PushToCloud ==
    /\ Loaded
    /\ session_state["unsaved_count"] > 0
    /\ \/ \E j \in 1..3 :
            /\ sheets' = WriteFirst(sheets, session_state, j - 1)
            /\ conn_calls' = SubSeq(UpdateCalls, 1, j)
            /\ handler' = Ran("push failed")
            /\ pushed' = NoPush
            /\ UNCHANGED <<session_state, staged>>
       \/ \E now \in Times :
            /\ sheets' = WriteFirst(sheets, session_state, 3)
            /\ conn_calls' = UpdateCalls
            /\ handler' = Ran("push")
            /\ session_state' = Put(Put(session_state, "unsaved_count", 0), "last_sync", now)
            /\ staged' = 0
            /\ pushed' = WorkingCopy(session_state)
    /\ UNCHANGED <<issued, sel_bookies, streak_card>>

\* variant: the refresh that is offered whatever the counter says
FullDataRefreshAnytime ==
    /\ Loaded
    /\ session_state' = Del(session_state, {"bets_df", "cash_df", "meta_df", "unsaved_count"})
    /\ conn_calls' = <<>>
    /\ handler' = Ran("refresh")
    /\ UNCHANGED <<sheets, staged, pushed, issued, sel_bookies, streak_card>>

\* lines 217-223: Full Data Refresh, offered in the else branch of unsaved_count > 0
FullDataRefresh ==
    /\ Loaded
    /\ ~(session_state["unsaved_count"] > 0)
    /\ session_state' = Del(session_state, {"bets_df", "cash_df", "meta_df", "unsaved_count"})
    /\ conn_calls' = <<>>
    /\ handler' = Ran("refresh")
    /\ UNCHANGED <<sheets, staged, pushed, issued, sel_bookies, streak_card>>


\* ---- form inputs (bounded) ---------------------------------------------------
\* What the user does, per specification: days of the date picker, (Decimal Odds,
\* Stake Amount) pairs and Status choices of the wager form, Set Result choices and
\* Payout Totals of the settlement card, Action Types of the cash form; and how far
\* the tables and the counter may grow.
SyncInputs ==
    [days |-> {1}, odds_stake |-> {<<3, 2>>}, statuses |-> {"Pending", "Won"},
     outcomes |-> Statuses, payouts |-> {3},
     cash_actions |-> {"Deposit", "Withdrawal"},
     max_bets |-> MaxSyncBets, max_unsaved |-> MaxUnsaved]
LedgerInputs ==
    [days |-> {1}, odds_stake |-> {<<3, 2>>, <<2, 1>>}, statuses |-> Statuses,
     outcomes |-> Statuses, payouts |-> {0, 3},
     cash_actions |-> {"Bonus"},
     max_bets |-> MaxLedgerBets, max_unsaved |-> MaxLedgerOps]
\* Amount typed into the cash form
AmountInputs == {5}

\* the four text areas of the Settings page, each as its list of lines
ConfigInputs ==
    { [s |-> <<"s1", "s2">>, l |-> <<>>, b |-> <<" b1 ", "", "b1">>, t |-> <<"  ">>] }

\* str.strip() on the lines above
Strip(x) ==
    CASE x = " b1 " -> "b1"
      [] x = "  " -> ""
      [] OTHER -> x

\* ---- helpers of the handlers -------------------------------------------------
SeqMax(q) == CHOOSE m \in {q[i] : i \in 1..Len(q)} : \A j \in 1..Len(q) : q[j] <= m
Column(df, c) == [i \in 1..Len(df) |-> df[i][c]]
RemoveAt(q, i) == [j \in 1..(Len(q) - 1) |-> IF j < i THEN q[j] ELSE q[j + 1]]
Range(q) == {q[i] : i \in 1..Len(q)}

\* st.selectbox(label, options): one of the options, None when there is none
SelectBox(options) == IF options = {} THEN {NoneValue} ELSE options

\* lines 362-368
NewWagerPL(in_status, in_stake, in_odds) ==
    IF in_status = "Won" THEN (in_stake * in_odds) - in_stake
    ELSE IF in_status = "Lost" THEN -in_stake
    ELSE 0

\* variant: the id taken from the number of rows
NewWagerIdByCount(df_bets) == Len(df_bets) + 1

\* line 371
NewWagerId(df_bets) ==
    IF df_bets /= <<>> THEN SeqMax(Column(df_bets, "id")) + 1 ELSE 1

\* variant: a settlement card for every row
AllItems(df_bets) == 1..Len(df_bets)

\* lines 383, 387: the rows the settlement tab shows
PendingItems(df_bets) == {i \in 1..Len(df_bets) : df_bets[i].Status = "Pending"}

\* variant: a win booked with the gross return
SettleRowGross(row, outcome, co_amount) ==
    LET a == [row EXCEPT !.Status = outcome]
    IN  IF outcome = "Won" THEN [a EXCEPT !.PL = row.Stake * row.Odds]
        ELSE IF outcome = "Lost" THEN [a EXCEPT !.PL = -row.Stake]
        ELSE IF outcome = "Cashed Out"
             THEN [a EXCEPT !.PL = co_amount - row.Stake, !.Cashout_Amt = co_amount]
        ELSE a

\* lines 401-408
SettleRow(row, outcome, co_amount) ==
    LET a == [row EXCEPT !.Status = outcome]
    IN  IF outcome = "Won" THEN [a EXCEPT !.PL = (row.Stake * row.Odds) - row.Stake]
        ELSE IF outcome = "Lost" THEN [a EXCEPT !.PL = -row.Stake]
        ELSE IF outcome = "Cashed Out"
             THEN [a EXCEPT !.PL = co_amount - row.Stake, !.Cashout_Amt = co_amount]
        ELSE a

\* variant: a handler that forgets the counter
CountUnsavedSkipped(ss) == ss

\* every mutating handler: st.session_state.unsaved_count += 1
CountUnsaved(ss) == Put(ss, "unsaved_count", ss["unsaved_count"] + 1)

\* the handlers below touch neither conn nor the Dashboard
LocalRun(name, args) ==
    /\ handler' = [name |-> name, args |-> args]
    /\ conn_calls' = <<>>
    /\ staged' = staged + 1
    /\ pushed' = NoPush
    /\ UNCHANGED <<sheets, sel_bookies, streak_card>>

CanStage(inputs) == Loaded /\ session_state["unsaved_count"] < inputs.max_unsaved

\* variant: SAVE that also writes the Bets worksheet at once
SaveWagerAutosave(inputs) ==
    /\ CanStage(inputs)
    /\ LET df_bets == session_state["bets_df"]
           df_meta == session_state["meta_df"]
       IN  /\ Len(df_bets) < inputs.max_bets
           /\ NewWagerId(df_bets) <= inputs.max_bets + 1
           /\ \E in_day \in inputs.days, in_bookie \in SelectBox(Range(df_meta["Bookies"])),
                 os \in inputs.odds_stake, in_status \in inputs.statuses :
                LET new_entry == [id |-> NewWagerId(df_bets), Date |-> PlainDate(in_day),
                                  Bookie |-> in_bookie, Odds |-> os[1], Stake |-> os[2],
                                  Status |-> in_status,
                                  PL |-> NewWagerPL(in_status, os[2], os[1]),
                                  Cashout_Amt |-> 0]
                IN  /\ session_state' =
                        CountUnsaved(Put(session_state, "bets_df", Append(df_bets, new_entry)))
                    /\ sheets' = [sheets EXCEPT !.Bets = Append(df_bets, new_entry)]
           /\ issued' = issued \cup {NewWagerId(df_bets)}
    /\ handler' = Ran("save wager")
    /\ conn_calls' = << <<"update", "Bets">> >>
    /\ staged' = staged + 1
    /\ pushed' = NoPush
    /\ UNCHANGED <<sel_bookies, streak_card>>

\* lines 339-380: SAVE TO LOCAL SESSION
SaveWager(inputs) ==
    /\ CanStage(inputs)
    /\ LET df_bets == session_state["bets_df"]
           df_meta == session_state["meta_df"]
       IN  /\ Len(df_bets) < inputs.max_bets
           /\ NewWagerId(df_bets) <= inputs.max_bets + 1
           /\ \E in_day \in inputs.days, in_bookie \in SelectBox(Range(df_meta["Bookies"])),
                 os \in inputs.odds_stake, in_status \in inputs.statuses :
                LET in_odds == os[1]
                    in_stake == os[2]
                    new_entry == [id |-> NewWagerId(df_bets), Date |-> PlainDate(in_day),
                                  Bookie |-> in_bookie, Odds |-> in_odds, Stake |-> in_stake,
                                  Status |-> in_status,
                                  PL |-> NewWagerPL(in_status, in_stake, in_odds),
                                  Cashout_Amt |-> 0]
                IN  session_state' =
                        CountUnsaved(Put(session_state, "bets_df", Append(df_bets, new_entry)))
           /\ issued' = issued \cup {NewWagerId(df_bets)}
    /\ LocalRun("save wager", <<>>)

\* lines 382-411: SET RESULT on one of the pending cards
SetResult(inputs) ==
    /\ CanStage(inputs)
    /\ LET df_bets == session_state["bets_df"]
       IN  \E idx \in PendingItems(df_bets), outcome \in inputs.outcomes \ {"Pending"},
              payout \in inputs.payouts :
                LET co_amount == IF outcome = "Cashed Out" THEN payout ELSE 0
                IN  /\ session_state' =
                        CountUnsaved(Put(session_state, "bets_df",
                            [df_bets EXCEPT ![idx] = SettleRow(df_bets[idx], outcome, co_amount)]))
                    /\ LocalRun("set result", <<idx, outcome, co_amount>>)
    /\ UNCHANGED issued

\* lines 426-433: DELETE on one of the history rows
DeleteWager(inputs) ==
    /\ CanStage(inputs)
    /\ LET df_bets == session_state["bets_df"]
       IN  \E idx \in 1..Len(df_bets) :
                session_state' = CountUnsaved(Put(session_state, "bets_df", RemoveAt(df_bets, idx)))
    /\ LocalRun("delete wager", <<>>)
    /\ UNCHANGED issued

\* lines 443, 467-478: LOG TRANSACTION
LogTransaction(inputs) ==
    /\ CanStage(inputs)
    /\ LET df_cash == session_state["cash_df"]
           active_bookies == Range(session_state["meta_df"]["Bookies"])
       IN  /\ Len(df_cash) < MaxCash
           /\ \E tx_bookie \in SelectBox(active_bookies), tx_action \in inputs.cash_actions,
                 tx_amount \in AmountInputs :
                LET final_val == IF tx_action = "Withdrawal" THEN -tx_amount ELSE tx_amount
                    new_tx == [Date |-> Today, Bookie |-> tx_bookie, Type |-> tx_action,
                               Amount |-> final_val]
                IN  session_state' =
                        CountUnsaved(Put(session_state, "cash_df", Append(df_cash, new_tx)))
    /\ LocalRun("log transaction", <<>>)
    /\ UNCHANGED issued

\* lines 509-512: [x.strip() for x in text.split("\n") if x.strip()]
RECURSIVE CleanLines(_)
CleanLines(lines) ==
    IF lines = <<>> THEN <<>>
    ELSE IF Strip(Head(lines)) /= "" THEN <<Strip(Head(lines))>> \o CleanLines(Tail(lines))
    ELSE CleanLines(Tail(lines))

\* lines 516-519
PadTo(v, max_len) == [i \in 1..max_len |-> IF i <= Len(v) THEN v[i] ELSE ""]

\* lines 506-521
UpdatedMeta(inp) ==
    LET d == [Sports |-> CleanLines(inp.s), Leagues |-> CleanLines(inp.l),
              Bookies |-> CleanLines(inp.b), Types |-> CleanLines(inp.t)]
        max_len == CHOOSE n \in {Len(d[k]) : k \in DOMAIN d} : \A k \in DOMAIN d : Len(d[k]) <= n
    IN  [k \in DOMAIN d |-> PadTo(d[k], max_len)]

\* lines 506-523: APPLY CONFIGURATION UPDATES
ApplyConfiguration(inputs) ==
    /\ CanStage(inputs)
    /\ \E inp \in ConfigInputs :
            session_state' = CountUnsaved(Put(session_state, "meta_df", UpdatedMeta(inp)))
    /\ LocalRun("apply configuration", <<>>)
    /\ UNCHANGED issued

\* ---- the Dashboard (lines 160-184, 229-278) -----------------------------------
DateLess(x, y) == x.day < y.day \/ (x.day = y.day /\ x.tod < y.tod)

\* variant: the sort by Date alone
GoesBeforeDateOnly(a, b) == DateLess(b.Date, a.Date)

\* the order of sort_values(['Date', 'id'], ascending=[False, False]): a goes before b
GoesBefore(a, b) == DateLess(b.Date, a.Date) \/ (a.Date = b.Date /\ a.id > b.id)

\* the sort is stable: a row goes behind the rows it does not go before
RECURSIVE InsertSorted(_, _)
InsertSorted(sorted, r) ==
    IF sorted = <<>> THEN <<r>>
    ELSE IF GoesBefore(r, Head(sorted)) THEN <<r>> \o sorted
    ELSE <<Head(sorted)>> \o InsertSorted(Tail(sorted), r)

RECURSIVE SortDateIdDesc(_)
SortDateIdDesc(df) ==
    IF df = <<>> THEN <<>>
    ELSE InsertSorted(SortDateIdDesc(SubSeq(df, 1, Len(df) - 1)), df[Len(df)])

\* lines 174-181: the loop that counts until the first different result
RECURSIVE LeadingRun(_, _)
LeadingRun(results_list, first_result) ==
    IF results_list = <<>> THEN 0
    ELSE IF Head(results_list) = first_result
         THEN 1 + LeadingRun(Tail(results_list), first_result)
    ELSE 0

IsGraded(r) == r.Status \in {"Won", "Lost"}

\* lines 160-184
calculate_streak_intelligence(df) ==
    IF df = <<>> THEN [label |-> "N/A", hex |-> "#8b949e"]
    ELSE LET settled == SelectSeq(df, IsGraded)
         IN  IF settled = <<>> THEN [label |-> "0-0", hex |-> "#8b949e"]
             ELSE LET results_list == Column(SortDateIdDesc(settled), "Status")
                      first_result == results_list[1]
                      streak_counter == LeadingRun(results_list, first_result)
                  IN  [label |-> ToString(streak_counter) \o " " \o first_result,
                       hex |-> IF first_result = "Won" THEN "#00ffc8" ELSE "#ff4b4b"]

\* lines 248-249: dff, the rows left by the Bookie multiselect (none chosen: all rows)
FilterBookies(df_bets, sel) ==
    IF sel /= {} THEN SelectSeq(df_bets, LAMBDA r : r.Bookie \in sel) ELSE df_bets

\* lines 229-278: a run that draws the Dashboard page
Dashboard ==
    /\ Loaded
    /\ LET df_bets == session_state["bets_df"]
           all_bookies == Range(Column(df_bets, "Bookie"))
       IN  \E sel \in SUBSET all_bookies :
                LET dff == FilterBookies(df_bets, sel)
                IN  /\ sel_bookies' = sel
                    /\ streak_card' = IF dff = <<>> THEN NoCard
                                      ELSE calculate_streak_intelligence(dff)
    /\ handler' = Ran("dashboard")
    /\ conn_calls' = <<>>
    /\ UNCHANGED <<session_state, sheets, staged, pushed, issued>>

Next ==
    \/ InitialFetch
    \/ PushToCloud
    \/ FullDataRefresh
    \/ SaveWager(SyncInputs)
    \/ SetResult(SyncInputs)
    \/ DeleteWager(SyncInputs)
    \/ LogTransaction(SyncInputs)
    \/ ApplyConfiguration(SyncInputs)

Spec == Init /\ [][Next]_vars

\* The ledger alone: the session after the first fetch of the new workbook, and the
\* handlers that stage changes, with the wider wager inputs.
LedgerInit ==
    /\ session_state = FetchInto(SessionDefaults([authenticated |-> TRUE]), EmptyWorkbook, "10:00:00")
    /\ sheets = EmptyWorkbook
    /\ conn_calls = ReadCalls
    /\ handler = Ran("fetch")
    /\ staged = 0
    /\ pushed = NoPush
    /\ issued = {}
    /\ sel_bookies = {}
    /\ streak_card = NoCard

LedgerNext ==
    \/ SaveWager(LedgerInputs)
    \/ SetResult(LedgerInputs)
    \/ DeleteWager(LedgerInputs)
    \/ LogTransaction(LedgerInputs)
    \/ ApplyConfiguration(LedgerInputs)

LedgerSpec == LedgerInit /\ [][LedgerNext]_vars

\* The Dashboard alone, over the wager tables the handlers can leave behind: ids grow
\* along the rows, every P/L is the one SAVE computes.
StreakStatuses == {"Won", "Lost", "Push"}
\* row i was placed with the bookie the pattern gives it: all with b1, or b1 and b2 in turn
StreakBookies == {[i \in 1..MaxStreakRows |-> "b1"],
                  [i \in 1..MaxStreakRows |-> IF i % 2 = 1 THEN "b1" ELSE "b2"]}
StreakDays == {1, 2}

StreakRow(i, day, bookie, status) ==
    [id |-> i, Date |-> PlainDate(day), Bookie |-> bookie, Odds |-> 3, Stake |-> 2,
     Status |-> status, PL |-> NewWagerPL(status, 2, 3), Cashout_Amt |-> 0]

StreakTables ==
    UNION { { [i \in 1..n |-> StreakRow(i, d[i], b[i], st[i])] :
                d \in [1..n -> StreakDays], b \in StreakBookies,
                st \in [1..n -> StreakStatuses] } : n \in 0..MaxStreakRows }

StreakInit ==
    /\ \E df \in StreakTables :
            session_state = Put(FetchInto(SessionDefaults([authenticated |-> TRUE]),
                                          EmptyWorkbook, "10:00:00"), "bets_df", df)
    /\ sheets = EmptyWorkbook
    /\ conn_calls = ReadCalls
    /\ handler = Ran("fetch")
    /\ staged = 0
    /\ pushed = NoPush
    /\ issued = {}
    /\ sel_bookies = {}
    /\ streak_card = NoCard

StreakNext == Dashboard

StreakSpec == StreakInit /\ [][StreakNext]_vars

\* The loader alone, over Bets worksheets that lack some of the required columns: a
\* worksheet edited outside the application. Row i holds wager i; the odd rows carry
\* a time of day in their Date.
RawRow(i) ==
    [id |-> i, Date |-> [day |-> 1 + (i % 2), tod |-> i % 2], Bookie |-> "b1",
     Odds |-> 3, Stake |-> 2, Status |-> IF i % 2 = 1 THEN "Won" ELSE "Pending",
     PL |-> NewWagerPL(IF i % 2 = 1 THEN "Won" ELSE "Pending", 2, 3), Cashout_Amt |-> 0]

\* the table without the columns in missing
WithoutColumns(table, missing) ==
    [i \in 1..Len(table) |-> [f \in (DOMAIN table[i]) \ missing |-> table[i][f]]]

RawBetTables ==
    { WithoutColumns([i \in 1..n |-> RawRow(i)], missing) :
        n \in 0..MaxRawRows, missing \in SUBSET required_bet_fields }

LoaderInit ==
    /\ session_state = [authenticated |-> TRUE]
    /\ \E raw \in RawBetTables : sheets = [Bets |-> raw, Cash |-> <<>>, Meta |-> InitialMeta]
    /\ conn_calls = <<>>
    /\ handler = Ran("none")
    /\ staged = 0
    /\ pushed = NoPush
    /\ issued = {}
    /\ sel_bookies = {}
    /\ streak_card = NoCard

LoaderNext ==
    \/ InitialFetch
    \/ FullDataRefresh

LoaderSpec == LoaderInit /\ [][LoaderNext]_vars


\* ---- properties ----------------------------------------------------------------
Bets == session_state["bets_df"]
Unsaved == session_state["unsaved_count"]
Ids(df) == Range(Column(df, "id"))
StagingHandlers ==
    {"save wager", "set result", "delete wager", "log transaction", "apply configuration"}
Normalized(copy) ==
    [Bets |-> SanitizeDates(copy.Bets), Cash |-> SanitizeDates(copy.Cash), Meta |-> copy.Meta]

\* C1: with a working copy in the session, unsaved_count equals the number of staging
\* handlers (save, settle, delete, cash entry, configuration) run since the working
\* copy was fetched or last pushed with success.
C1_DirtyCounterCountsOps == Loaded => Unsaved = staged

C1_Witness ==
    /\ Loaded
    /\ staged = 3
    /\ Unsaved = 3
    /\ handler.name = "apply configuration"
    /\ Bets /= <<>>

\* C2: a push in which one of the three conn.update calls raised leaves unsaved_count,
\* last_sync and the three tables of the working copy as they were before the push;
\* the counter is still above 0, so the push is offered again.
C2_FailedPushKeepsSession ==
    [][handler'.name = "push failed" =>
            /\ session_state'["unsaved_count"] = session_state["unsaved_count"]
            /\ session_state'["last_sync"] = session_state["last_sync"]
            /\ WorkingCopy(session_state') = WorkingCopy(session_state)
            /\ session_state'["unsaved_count"] > 0]_vars

C2_Witness ==
    /\ handler.name = "push failed"
    /\ Len(conn_calls) = 2
    /\ sheets.Bets /= <<>>
    /\ sheets.Cash = <<>>
    /\ Loaded
    /\ Unsaved = 2
    /\ session_state["cash_df"] /= <<>>

\* C3: after a successful push unsaved_count is 0, and the fetch that follows the
\* refresh after that push yields the three tables the push wrote, row for row
\* (dates compared as plain dates).
C3_PushThenReloadRoundTrip ==
    /\ (handler.name = "push" => Loaded /\ Unsaved = 0)
    /\ (handler.name = "fetch" /\ pushed /= NoPush =>
            Normalized(WorkingCopy(session_state)) = Normalized(pushed))

C3_Witness ==
    /\ handler.name = "fetch"
    /\ pushed /= NoPush
    /\ pushed.Bets /= <<>>
    /\ pushed.Cash /= <<>>
    /\ pushed.Meta /= InitialMeta
    /\ Unsaved = 0


\* the P/L the settlement function gives a wager of stake s and odds o
PLOf(status, s, o, cashout_amount) ==
    CASE status = "Won" -> (s * o) - s
      [] status = "Lost" -> -s
      [] status = "Cashed Out" -> cashout_amount - s
      [] OTHER -> 0

\* C4: SET RESULT on a Pending wager with stake s and odds o, target status t and
\* payout p, leaves the other rows alone and makes the wager's status t and its P/L
\* s*o - s for Won, -s for Lost, 0 for Push, p - s for Cashed Out, with
\* Cashout_Amt = p in the last case.
C4_SettlementPL ==
    [][handler'.name = "set result" =>
        LET idx == handler'.args[1]
            t == handler'.args[2]
            p == handler'.args[3]
            old == session_state["bets_df"]
            new == session_state'["bets_df"]
        IN  /\ idx \in 1..Len(old)
            /\ old[idx].Status = "Pending"
            /\ Len(new) = Len(old)
            /\ \A j \in 1..Len(old) : j /= idx => new[j] = old[j]
            /\ new[idx].Status = t
            /\ t = "Won" => new[idx].PL = (old[idx].Stake * old[idx].Odds) - old[idx].Stake
            /\ t = "Lost" => new[idx].PL = -old[idx].Stake
            /\ t = "Push" => new[idx].PL = 0
            /\ t = "Cashed Out" =>
                    new[idx].PL = p - old[idx].Stake /\ new[idx].Cashout_Amt = p]_vars

C4_Witness ==
    /\ handler.name = "set result"
    /\ handler.args[2] = "Cashed Out"
    /\ handler.args[3] = 3
    /\ Bets[handler.args[1]].Stake = 2
    /\ Bets[handler.args[1]].PL = 1
    /\ Bets[handler.args[1]].Cashout_Amt = 3

\* C5: every wager of the working copy has the P/L its status, stake, odds and
\* cashout amount give: 0 for Pending and Push, stake*odds - stake for Won, -stake for
\* Lost, cashout_amount - stake for Cashed Out.
C5_PLConsistent ==
    Loaded =>
        \A i \in 1..Len(Bets) :
            Bets[i].PL = PLOf(Bets[i].Status, Bets[i].Stake, Bets[i].Odds, Bets[i].Cashout_Amt)

UniqueIds(df) == \A i, j \in 1..Len(df) : df[i].id = df[j].id => i = j

\* what SAVE must do to the Bets table: append one row whose id is 1 on an empty table
\* and the largest id present plus 1 otherwise
AppendsNextId(old, new) ==
    /\ Len(new) = Len(old) + 1
    /\ SubSeq(new, 1, Len(old)) = old
    /\ new[Len(new)].id = IF old = <<>> THEN 1
                          ELSE 1 + (CHOOSE m \in Ids(old) : \A x \in Ids(old) : x <= m)

\* C6 as stated: ids are unique among the wagers present, SAVE gives the new wager the
\* largest id present plus 1 (1 on an empty table), and never an id that an earlier
\* SAVE handed out, also when that wager has been deleted since.
C6_IdsNeverReused ==
    [][Loaded /\ Loaded' =>
        /\ UniqueIds(session_state'["bets_df"])
        /\ handler'.name = "save wager" =>
                /\ AppendsNextId(session_state["bets_df"], session_state'["bets_df"])
                /\ session_state'["bets_df"][Len(session_state'["bets_df"])].id \notin issued]_vars

\* C6 as amended: ids are unique among the wagers present, SAVE gives the new wager
\* the largest id present plus 1 (1 on an empty table), so an id no present wager
\* holds; an id of a deleted wager is handed out again once no present wager has an id
\* as large.
C6_IdsUniqueMaxPlusOne ==
    [][Loaded /\ Loaded' =>
        /\ UniqueIds(session_state'["bets_df"])
        /\ handler'.name = "save wager" =>
                /\ AppendsNextId(session_state["bets_df"], session_state'["bets_df"])
                /\ session_state'["bets_df"][Len(session_state'["bets_df"])].id
                        \notin Ids(session_state["bets_df"])]_vars

\* a SAVE after the wager with id 1 was deleted: ids 2 and 3 present
C6_Witness ==
    /\ Loaded
    /\ handler.name = "save wager"
    /\ Column(Bets, "id") = <<2, 3>>
    /\ issued = {1, 2, 3}

\* C7: from one run to the next a wager of the working copy (followed by its id) is
\* left as it is, deleted, or, when it is Pending, given a status among Won, Lost,
\* Push, Cashed Out together with its P/L and cashout amount; no wager becomes Pending
\* and no settled wager changes.
C7_SettlementOneWay ==
    [][Loaded /\ Loaded' =>
        \A i \in 1..Len(session_state["bets_df"]), j \in 1..Len(session_state'["bets_df"]) :
            LET old == session_state["bets_df"][i]
                new == session_state'["bets_df"][j]
            IN  old.id = new.id =>
                    \/ new = old
                    \/ /\ old.Status = "Pending"
                       /\ new.Status \in {"Won", "Lost", "Push", "Cashed Out"}
                       /\ new = [old EXCEPT !.Status = new.Status, !.PL = new.PL,
                                            !.Cashout_Amt = new.Cashout_Amt]]_vars

\* a wager settled two runs ago that the latest settlement left alone
C7_Witness ==
    /\ Loaded
    /\ handler.name = "set result"
    /\ Len(Bets) = 2
    /\ handler.args[1] = 2
    /\ Bets[1].Status = "Cashed Out"
    /\ Bets[1].Cashout_Amt = 3
    /\ Bets[2].Status = "Push"


\* C8 as stated: with a working copy in the session, whatever unsaved_count says, the
\* refresh can be run.
C8_RefreshAlwaysOffered == Loaded => ENABLED FullDataRefresh

\* C8 as amended: with a working copy in the session the refresh can be run exactly
\* when unsaved_count is 0; it drops the three tables and the counter from the session
\* and leaves the workbook alone, so that the next run fetches the three worksheets;
\* with unsaved_count at 1 or more only the push is offered, and no refresh discards
\* staged changes.
C8_RefreshOnlyWhenClean ==
    /\ Loaded => (ENABLED FullDataRefresh <=> Unsaved = 0)
    /\ handler.name = "refresh" =>
            /\ DOMAIN session_state
                    \cap {"bets_df", "cash_df", "meta_df", "unsaved_count"} = {}
            /\ staged = 0
            /\ conn_calls = <<>>
            /\ ENABLED InitialFetch
            /\ ~ENABLED PushToCloud

C8_Witness ==
    /\ handler.name = "refresh"
    /\ ~Loaded
    /\ sheets.Bets /= <<>>
    /\ sheets.Meta /= InitialMeta
    /\ session_state["last_sync"] /= "Never"

IsRead(call) == call[1] = "read"
IsUpdate(call) == call[1] = "update"

\* C9: a run of a staging handler (save, settle, delete, cash entry, configuration)
\* makes no call on conn and leaves the workbook as it is; conn.read is called only by
\* the run that finds no working copy in the session, conn.update only by the push,
\* and only a push changes the workbook.
C9_StoreTouchedOnlyBySync ==
    [][/\ handler'.name \in StagingHandlers =>
            /\ conn_calls' = <<>>
            /\ sheets' = sheets
            /\ Loaded /\ Loaded'
            /\ session_state'["unsaved_count"] = session_state["unsaved_count"] + 1
            /\ session_state'["last_sync"] = session_state["last_sync"]
       /\ \A k \in 1..Len(conn_calls') :
            /\ IsRead(conn_calls'[k]) => handler'.name \in {"fetch", "fetch failed"} /\ ~Loaded
            /\ IsUpdate(conn_calls'[k]) =>
                    handler'.name \in {"push", "push failed"} /\ Loaded /\ Unsaved > 0
       /\ sheets' /= sheets => handler'.name \in {"push", "push failed"}]_vars

C9_Witness ==
    /\ handler.name = "set result"
    /\ conn_calls = <<>>
    /\ sheets = EmptyWorkbook
    /\ Loaded
    /\ Unsaved = 3
    /\ session_state["cash_df"] /= <<>>

\* the rows of df whose status is Won or Lost
Graded(df) == {i \in 1..Len(df) : df[i].Status \in {"Won", "Lost"}}
\* row i comes later than row j in the order by (Date, id)
Later(df, i, j) ==
    \/ df[i].Date.day > df[j].Date.day
    \/ df[i].Date.day = df[j].Date.day /\ df[i].id > df[j].id

\* label is the streak of df: a sentinel that is neither "0 Won" nor "0 Lost" when no
\* row is graded; otherwise "n outcome" where outcome is the status of the latest graded
\* row and n counts the graded rows of that status with no graded row of the other
\* status later than them.
IsStreakOf(label, df) ==
    IF Graded(df) = {}
    THEN label \in {"N/A", "0-0"} /\ label \notin {"0 Won", "0 Lost"}
    ELSE \E top \in Graded(df) :
            /\ \A j \in Graded(df) \ {top} : Later(df, top, j)
            /\ LET outcome == df[top].Status
                   run == {i \in Graded(df) :
                                /\ df[i].Status = outcome
                                /\ \A j \in Graded(df) :
                                        df[j].Status /= outcome => Later(df, i, j)}
               IN  label = ToString(Cardinality(run)) \o " " \o outcome

\* C10: for the rows the Dashboard filter leaves, calculate_streak_intelligence reports
\* the streak over the Won and Lost rows in the order by (Date, id) descending, and a
\* sentinel when there is none; the card the Dashboard draws shows that label.
C10_Streak ==
    Loaded =>
        LET dff == FilterBookies(Bets, sel_bookies)
        IN  /\ IsStreakOf(calculate_streak_intelligence(dff).label, dff)
            /\ IsStreakOf(calculate_streak_intelligence(<<>>).label, <<>>)
            /\ handler.name = "dashboard" /\ dff /= <<>> => IsStreakOf(streak_card.label, dff)

\* the graded rows, latest first, are Won, Won, Lost, Won
C10_Witness ==
    /\ handler.name = "dashboard"
    /\ sel_bookies = {}
    /\ Len(Bets) = 4
    /\ Column(Bets, "Status") = <<"Won", "Won", "Lost", "Won">>
    /\ Bets[1].Date.day = 2
    /\ Bets[2].Date.day = 1
    /\ Bets[3].Date.day = 1
    /\ Bets[4].Date.day = 2
    /\ streak_card.label = "2 Won"


\* the columns the Bets worksheet has (those of its rows; none can be told of a
\* worksheet without rows)
LacksColumn(raw, f) == raw /= <<>> /\ f \notin DOMAIN raw[1]

\* df is raw with every required column raw lacks added to every row, the numeric
\* ones as 0 and the others as text; the columns raw has are kept, the Date as the
\* plain date of the value raw holds
HealedWith(df, raw, text) ==
    /\ Len(df) = Len(raw)
    /\ \A i \in 1..Len(raw) :
        /\ DOMAIN df[i] = (DOMAIN raw[i]) \cup required_bet_fields
        /\ \A f \in DOMAIN df[i] :
            IF f \in DOMAIN raw[i]
            THEN IF f = "Date"
                 THEN df[i].Date = [day |-> raw[i].Date.day, tod |-> 0]
                 ELSE df[i][f] = raw[i][f]
            ELSE IF f \in numeric_bet_fields
                 THEN df[i][f] = 0
                 ELSE f /= "Date" /\ df[i][f] = text

====
